---- MODULE Spec2Model ----
(***************************************************************************)
(* Model of python_scripts/create_database.py: the synthetic dataset       *)
(* generators (generate_customer_data, generate_order_data) and the        *)
(* create_database run that writes their output through one sqlite3        *)
(* connection; and of the scripts that read the database afterwards        *)
(* (visualisations.py, run_queries.py, test_database.py), as far as their  *)
(* connection handling goes.                                               *)
(*                                                                         *)
(* Python tuples are TLA+ tuples (Python index k is TLA+ index k+1).       *)
(* Prices are kept in cents (999.99 is 99999).  The process-wide random    *)
(* module is a seeded deterministic generator: the seed is chosen when     *)
(* the process starts and every draw advances the generator state.         *)
(***************************************************************************)
EXTENDS Integers, Sequences, FiniteSets, TLC

\* ------------------------------------------------------------------ bounds
\* customers generated per run (the source loops range(1, 101))
NumCustomers == 3
\* how many entries of each source pool the model keeps
NumFirstNames == 2
NumLastNames == 1
NumCities == 2
\* seeds the random module may start from
NumSeeds == 12
\* runs of create_database against the same database file
MaxRuns == 2
\* longest customers list handed to a direct call of generate_order_data
MaxInputCustomers == 2

\* ------------------------------------------------------- program constants
MinOrders == 1
MaxOrders == 5
MinItems == 1
MaxItems == 4
MinQuantity == 1
MaxQuantity == 3
SignupSpanDays == 365
OrderSpanDays == 90
SignupYear == 2023
OrderYear == 2024

AllFirstNames ==
  <<"John", "Jane", "Michael", "Sarah", "David", "Lisa", "Robert", "Emily",
    "Chris", "Amanda", "Brian", "Nicole">>
AllLastNames ==
  <<"Smith", "Johnson", "Williams", "Brown", "Jones", "Garcia", "Miller",
    "Davis", "Wilson", "Moore", "Taylor", "Anderson">>
AllCities ==
  <<"New York", "Los Angeles", "Chicago", "Houston", "Phoenix",
    "Philadelphia", "San Antonio", "San Diego", "Dallas", "San Jose">>

Min(a, b) == IF a < b THEN a ELSE b

first_names == SubSeq(AllFirstNames, 1, Min(NumFirstNames, Len(AllFirstNames)))
last_names == SubSeq(AllLastNames, 1, Min(NumLastNames, Len(AllLastNames)))
cities == SubSeq(AllCities, 1, Min(NumCities, Len(AllCities)))

statuses == <<"completed", "completed", "completed", "shipped", "processing">>

\* the hard-coded catalog: (id, name, category, price, cost), money in cents
Catalog ==
  << <<1, "Laptop", "Electronics", 99999, 65000>>,
     <<2, "Smartphone", "Electronics", 69999, 45000>>,
     <<3, "Headphones", "Electronics", 14999, 8000>>,
     <<4, "Desk Chair", "Furniture", 19999, 12000>>,
     <<5, "Coffee Maker", "Home Appliances", 7999, 4500>>,
     <<6, "Water Bottle", "Sports", 2499, 1200>>,
     <<7, "Backpack", "Fashion", 5999, 3500>>,
     <<8, "Book: Data Science", "Books", 4999, 2500>>,
     <<9, "Monitor", "Electronics", 29999, 18000>>,
     <<10, "Keyboard", "Electronics", 8999, 5000>> >>

TableNames == <<"customers", "products", "orders", "order_items">>

\* ------------------------------------------------------------ str.lower()
Lower(s) ==
  CASE s = "John" -> "john" [] s = "Jane" -> "jane"
    [] s = "Michael" -> "michael" [] s = "Sarah" -> "sarah"
    [] s = "David" -> "david" [] s = "Lisa" -> "lisa"
    [] s = "Robert" -> "robert" [] s = "Emily" -> "emily"
    [] s = "Chris" -> "chris" [] s = "Amanda" -> "amanda"
    [] s = "Brian" -> "brian" [] s = "Nicole" -> "nicole"
    [] s = "Smith" -> "smith" [] s = "Johnson" -> "johnson"
    [] s = "Williams" -> "williams" [] s = "Brown" -> "brown"
    [] s = "Jones" -> "jones" [] s = "Garcia" -> "garcia"
    [] s = "Miller" -> "miller" [] s = "Davis" -> "davis"
    [] s = "Wilson" -> "wilson" [] s = "Moore" -> "moore"
    [] s = "Taylor" -> "taylor" [] s = "Anderson" -> "anderson"

\* f"{first.lower()}.{last.lower()}"
BaseEmail(first, last) == Lower(first) \o "." \o Lower(last)
\* f"{base_email}@email.com"
PlainEmail(base) == base \o "@email.com"
\* the suffix is one more than the loop's counter
SuffixedEmailFromTwo(base, counter) ==
  base \o ToString(counter + 1) \o "@email.com"

\* the suffix does not follow the loop's counter
SuffixedEmailFixed(base, counter) == base \o "1" \o "@email.com"

\* f"{base_email}{counter}@email.com"
SuffixedEmail(base, counter) == base \o ToString(counter) \o "@email.com"

\* ------------------------------------------- date + timedelta, isoformat()
IsLeap(y) == (y % 4 = 0 /\ y % 100 # 0) \/ y % 400 = 0

DaysInMonth(y, m) ==
  IF m = 2 THEN (IF IsLeap(y) THEN 29 ELSE 28)
  ELSE IF m \in {4, 6, 9, 11} THEN 30 ELSE 31

RECURSIVE DateFrom(_, _, _)
\* the calendar date `off` days after the first day of month m of year y
DateFrom(y, m, off) ==
  IF off < DaysInMonth(y, m) THEN <<y, m, off + 1>>
  ELSE IF m = 12 THEN DateFrom(y + 1, 1, off - DaysInMonth(y, m))
  ELSE DateFrom(y, m + 1, off - DaysInMonth(y, m))

Pad2(n) == IF n < 10 THEN "0" \o ToString(n) ELSE ToString(n)

IsoFormat(d) == ToString(d[1]) \o "-" \o Pad2(d[2]) \o "-" \o Pad2(d[3])

\* (datetime(year, 1, 1).date() + timedelta(days=off)).isoformat()
IsoDate(year, off) == IsoFormat(DateFrom(year, 1, off))

\* ------------------------------------------------------- the random module
Seeds == 1..NumSeeds

\* one step of the generator state (a linear congruential stand-in for the
\* Mersenne Twister: what matters is that draws are a function of the seed)
RngNext(s) == (131 * s + 305) % 65537

\* random.randint(lo, hi) read off generator state s; lo <= hi
RandInt(s, lo, hi) == lo + (s % (hi - lo + 1))

\* random.choice(seq) read off generator state s; seq is not empty
Choice(s, seq) == seq[1 + (s % Len(seq))]


\* ------------------------------------------------------------------- state
VARIABLES
  entry,          \* the operation the caller invoked
  pc,             \* position in the running code
  rng,            \* state of the random module
  runs,           \* runs of create_database started so far
  fault,          \* an operating-system or storage fault hit this run
  sqlFile,        \* ../sql_queries/create_tables.sql exists
  disk,           \* committed content of ../databases/ecommerce.db
  disk0,          \* disk as it was when the run started
  conn,           \* the local `conn`: "none", "open" or "closed"
  work,           \* table rows as the connection sees them
  inTxn,          \* the connection has an open transaction
  tblIdx,         \* create_tables_manually: index into tables_sql
  customers, used_emails, i, first, last, base_email, email, counter,
  products,       \* the catalog list
  products0,      \* the catalog as it was when generate_order_data ran
  orders, order_items, order_id, order_item_id,
  custIdx,        \* generate_order_data: index of `customer` in customers
  customer_id, ordersLeft, itemsLeft,
  error           \* the exception raised, "none" if none

dbVars == <<sqlFile, disk, disk0, conn, work, inTxn, tblIdx>>
custVars == <<customers, used_emails, i, first, last, base_email, email, counter>>
orderVars == <<orders, order_items, order_id, order_item_id, custIdx,
               customer_id, ordersLeft, itemsLeft>>
vars == <<entry, pc, rng, runs, fault, dbVars, custVars, products, products0,
          orderVars, error>>

TableSet == {TableNames[k] : k \in 1..Len(TableNames)}

NoRows == [t \in TableSet |-> <<>>]

\* a database file that does not exist yet or holds no table
EmptyDb == [tables |-> {}, rows |-> NoRows]

\* a customers list a caller may pass: ids in any order, other fields fixed
InputCustomer(id) ==
  <<id, "John", "Smith", SuffixedEmail("john.smith", id), "2023-01-01",
    "New York", "USA">>

InputCustomers ==
  {<<>>} \cup
  UNION {{[k \in 1..n |-> InputCustomer(f[k])] :
            f \in {g \in [1..n -> 1..(MaxInputCustomers + 1)] :
                     \A a, b \in 1..n : a # b => g[a] # g[b]}} :
         n \in 1..MaxInputCustomers}

\* the entry points that only read the database
ReaderScripts ==
  {"create_all_visualisations", "run_basic_queries", "test_connection"}

\* what a reading script may find in the file: nothing (connect creates an
\* empty file), a schema cut short, or the four tables
FoundDatabases ==
  {[tables |-> T, rows |-> NoRows] : T \in {{}, {"customers"}, TableSet}}

Init ==
  /\ rng \in Seeds
  /\ used_emails = {} /\ i = 1
  /\ first = "" /\ last = "" /\ base_email = "" /\ email = "" /\ counter = 1
  /\ orders = <<>> /\ order_items = <<>>
  /\ order_id = 1 /\ order_item_id = 1
  /\ custIdx = 0 /\ customer_id = 0 /\ ordersLeft = 0 /\ itemsLeft = 0
  /\ error = "none"
  /\ fault = FALSE
  /\ conn = "none" /\ inTxn = FALSE /\ tblIdx = 1
  /\ work = NoRows
  /\ \/ /\ entry = "create_database"
        /\ disk = EmptyDb /\ disk0 = EmptyDb
        /\ pc = "makedirs"
        /\ runs = 1
        /\ sqlFile \in BOOLEAN
        /\ customers = <<>>
        /\ products = <<>> /\ products0 = <<>>
     \/ /\ entry = "generate_order_data"
        /\ disk = EmptyDb /\ disk0 = EmptyDb
        /\ pc = "o_customer"
        /\ runs = 0
        /\ sqlFile = FALSE
        /\ customers \in InputCustomers
        /\ products \in {<<>>, Catalog}
        /\ products0 = products
     \/ /\ entry \in ReaderScripts
        /\ disk \in FoundDatabases /\ disk0 = disk
        /\ pc = "connect"
        /\ runs = 0
        /\ sqlFile = FALSE
        /\ customers = <<>>
        /\ products = <<>> /\ products0 = <<>>


\* an exception leaves the running function: create_database catches it,
\* a direct call of a generator lets it reach the caller
RaiseTo == IF entry = "create_database" THEN "except" ELSE "raised"

\* ------------------------------------------------- generate_customer_data
\* range(1, 100): the loop stops one value early
InCustomerRangeShort(k) == k < NumCustomers

\* for i in range(1, 101): the loop value k is still in the range
InCustomerRange(k) == k <= NumCustomers

\* the candidate is never looked up (the email is used as first built)
EmailTakenNever(e, used) == FALSE

\* the while condition `email in used_emails`
EmailTaken(e, used) == e \in used

\* the customer tuple appended for loop value id, drawn off states s1, s2
CustomerTuple(id, f, l, e, s1, s2) ==
  <<id, f, l, e, IsoDate(SignupYear, RandInt(s1, 0, SignupSpanDays)),
    Choice(s2, cities), "USA">>

\* loop head: draw the two names, build the first candidate email
CustomerPick ==
  /\ pc = "c_loop" /\ InCustomerRange(i)
  /\ LET s1 == RngNext(rng)
         s2 == RngNext(s1)
         f == Choice(s1, first_names)
         l == Choice(s2, last_names)
     IN /\ first' = f /\ last' = l
        /\ base_email' = BaseEmail(f, l)
        /\ email' = PlainEmail(BaseEmail(f, l))
        /\ counter' = 1
        /\ rng' = s2
  /\ pc' = "c_probe"
  /\ UNCHANGED <<entry, runs, fault, dbVars, customers, used_emails, i,
                 products, products0, orderVars, error>>

\* one turn of the while loop: the candidate is taken, try the next suffix
CustomerProbe ==
  /\ pc = "c_probe" /\ EmailTaken(email, used_emails)
  /\ email' = SuffixedEmail(base_email, counter)
  /\ counter' = counter + 1
  /\ UNCHANGED <<entry, pc, rng, runs, fault, dbVars, customers, used_emails,
                 i, first, last, base_email, products, products0, orderVars,
                 error>>

\* the candidate is free: record it, draw date and city, append the tuple
CustomerAppend ==
  /\ pc = "c_probe" /\ ~EmailTaken(email, used_emails)
  /\ used_emails' = used_emails \cup {email}
  /\ LET s1 == RngNext(rng)
         s2 == RngNext(s1)
     IN /\ customers' = Append(customers,
                               CustomerTuple(i, first, last, email, s1, s2))
        /\ rng' = s2
  /\ i' = i + 1
  /\ pc' = "c_loop"
  /\ UNCHANGED <<entry, runs, fault, dbVars, first, last, base_email, email,
                 counter, products, products0, orderVars, error>>

\* range(1, 101) is exhausted: return customers to create_database
CustomersReturn ==
  /\ pc = "c_loop" /\ ~InCustomerRange(i)
  /\ pc' = "insert_customers"
  /\ UNCHANGED <<entry, rng, runs, fault, dbVars, custVars, products,
                 products0, orderVars, error>>

\* ---------------------------------------------------- generate_order_data
\* the order tuple, date drawn off s1 and status off s2
OrderTuple(oid, cid, s1, s2) ==
  <<oid, cid, IsoDate(OrderYear, RandInt(s1, 0, OrderSpanDays)),
    Choice(s2, statuses)>>

\* the item names the order after this one (order_id advanced too early)
OrderItemTupleEarlyIncrement(iid, oid, product, s2) ==
  <<iid, oid + 1, product[1], RandInt(s2, MinQuantity, MaxQuantity),
    product[4]>>

\* the item copies product[4], the cost, instead of product[3], the price
OrderItemTupleCost(iid, oid, product, s2) ==
  <<iid, oid, product[1], RandInt(s2, MinQuantity, MaxQuantity), product[5]>>

\* the order item tuple for the product drawn, quantity drawn off s2
OrderItemTuple(iid, oid, product, s2) ==
  <<iid, oid, product[1], RandInt(s2, MinQuantity, MaxQuantity), product[4]>>

\* range(random.randint(1, 5)): how many orders the customer gets
OrdersPerCustomer(s) == RandInt(s, MinOrders, MaxOrders)

\* random.randint(0, 4): an order may get no item
ItemsPerOrderFromZero(s) == RandInt(s, 0, MaxItems)

\* range(random.randint(1, 4)): how many items the order gets
ItemsPerOrder(s) == RandInt(s, MinItems, MaxItems)

\* the item counter is advanced in place of the order counter
NextOrderIdStuck(oid, iid) == oid

\* order_id += 1 at the end of the order's body
NextOrderId(oid, iid) == oid + 1

\* for customer in customers: next customer, draw its number of orders
OrderNextCustomer ==
  /\ pc = "o_customer" /\ custIdx < Len(customers)
  /\ custIdx' = custIdx + 1
  /\ customer_id' = customers[custIdx + 1][1]
  /\ rng' = RngNext(rng)
  /\ ordersLeft' = OrdersPerCustomer(RngNext(rng))
  /\ pc' = "o_order"
  /\ UNCHANGED <<entry, runs, fault, dbVars, custVars, products, products0,
                 orders, order_items, order_id, order_item_id, itemsLeft,
                 error>>

\* customers is exhausted: return orders, order_items
OrdersReturn ==
  /\ pc = "o_customer" /\ custIdx = Len(customers)
  /\ pc' = IF entry = "create_database" THEN "insert_orders" ELSE "returned"
  /\ UNCHANGED <<entry, rng, runs, fault, dbVars, custVars, products,
                 products0, orderVars, error>>

\* one order: append its tuple, draw its number of items
GenOrder ==
  /\ pc = "o_order" /\ ordersLeft > 0
  /\ LET s1 == RngNext(rng)
         s2 == RngNext(s1)
         s3 == RngNext(s2)
     IN /\ orders' = Append(orders, OrderTuple(order_id, customer_id, s1, s2))
        /\ itemsLeft' = ItemsPerOrder(s3)
        /\ rng' = s3
  /\ ordersLeft' = ordersLeft - 1
  /\ pc' = "o_item"
  /\ UNCHANGED <<entry, runs, fault, dbVars, custVars, products, products0,
                 order_items, order_id, order_item_id, custIdx, customer_id,
                 error>>

\* the customer's orders are done
OrderLoopEnd ==
  /\ pc = "o_order" /\ ordersLeft = 0
  /\ pc' = "o_customer"
  /\ UNCHANGED <<entry, rng, runs, fault, dbVars, custVars, products,
                 products0, orderVars, error>>

\* one order item; random.choice raises IndexError on an empty catalog
GenItem ==
  /\ pc = "o_item" /\ itemsLeft > 0
  /\ IF products = <<>>
     THEN /\ error' = "IndexError"
          /\ pc' = RaiseTo
          /\ UNCHANGED <<rng, order_items, order_item_id, itemsLeft>>
     ELSE /\ LET s1 == RngNext(rng)
                 s2 == RngNext(s1)
             IN /\ order_items' =
                     Append(order_items,
                            OrderItemTuple(order_item_id, order_id,
                                           Choice(s1, products), s2))
                /\ rng' = s2
          /\ order_item_id' = order_item_id + 1
          /\ itemsLeft' = itemsLeft - 1
          /\ UNCHANGED <<pc, error>>
  /\ UNCHANGED <<entry, runs, fault, dbVars, custVars, products, products0,
                 orders, order_id, custIdx, customer_id, ordersLeft>>

\* the order's items are done: order_id += 1
ItemLoopEnd ==
  /\ pc = "o_item" /\ itemsLeft = 0
  /\ order_id' = NextOrderId(order_id, order_item_id)
  /\ pc' = "o_order"
  /\ UNCHANGED <<entry, rng, runs, fault, dbVars, custVars, products,
                 products0, orders, order_items, order_item_id, custIdx,
                 customer_id, ordersLeft, itemsLeft, error>>

\* the caller of generate_order_data rebinds a price in its catalog list
\* after the call has returned
CatalogPriceChange ==
  /\ pc = "returned" /\ products = products0
  /\ \E k \in 1..Len(products) :
       products' = [products EXCEPT ![k] = [@ EXCEPT ![4] = @ + 1000]]
  /\ UNCHANGED <<entry, pc, rng, runs, fault, dbVars, custVars, products0,
                 orderVars, error>>


\* --------------------------------------------------------- sqlite3 storage
\* a row the table refuses: its INTEGER PRIMARY KEY, or for customers its
\* UNIQUE email, is already present
Conflicts(table, existing, row) ==
  \E k \in 1..Len(existing) :
    \/ existing[k][1] = row[1]
    \/ table = "customers" /\ existing[k][4] = row[4]

RECURSIVE InsertRows(_, _, _)
\* executemany inserts row by row and stops at the first refused row
InsertRows(table, existing, rows) ==
  IF rows = <<>> THEN [rows |-> existing, ok |-> TRUE]
  ELSE IF Conflicts(table, existing, Head(rows))
       THEN [rows |-> existing, ok |-> FALSE]
       ELSE InsertRows(table, Append(existing, Head(rows)), Tail(rows))

\* cursor.executemany('INSERT INTO table ...', rows): the first INSERT opens
\* a transaction; the rows stay uncommitted until conn.commit()
ExecuteMany(table, rows, next) ==
  \/ /\ fault' = TRUE
     /\ error' = "OperationalError"
     /\ pc' = "except"
     /\ UNCHANGED <<work, inTxn>>
  \/ LET r == InsertRows(table, work[table], rows)
     IN /\ work' = [work EXCEPT ![table] = r.rows]
        /\ inTxn' = TRUE
        /\ IF table \in disk.tables /\ r.ok
           THEN pc' = next /\ error' = error
           ELSE pc' = "except" /\ error' = "IntegrityError"
        /\ UNCHANGED fault

\* the script of ../sql_queries/create_tables.sql: drop and recreate the
\* four tables
ScriptResult == [tables |-> TableSet, rows |-> NoRows]

\* CREATE TABLE IF NOT EXISTS t: an existing table keeps its rows
CreateIfNotExists(db, t) == [db EXCEPT !.tables = @ \cup {t}]

\* the handler only prints
CloseIfBoundSkip(c) == c

\* the handler's `if 'conn' in locals(): conn.close()`
CloseIfBound(c) == IF c # "none" THEN "closed" ELSE c

\* conn.commit(): the pending rows become the file's content
Committed(db, w) == [db EXCEPT !.rows = w]

\* -------------------------------------------------------- create_database
\* os.makedirs('../databases', exist_ok=True)
MakeDirs ==
  /\ pc = "makedirs"
  /\ \/ pc' = "connect" /\ UNCHANGED <<fault, error>>
     \/ pc' = "except" /\ fault' = TRUE /\ error' = "OSError"
  /\ UNCHANGED <<entry, rng, runs, dbVars, custVars, products, products0,
                 orderVars>>

\* conn = sqlite3.connect(...); cursor = conn.cursor()
Connect ==
  /\ entry = "create_database"
  /\ pc = "connect"
  /\ \/ /\ conn' = "open" /\ work' = disk.rows /\ pc' = "schema"
        /\ UNCHANGED <<fault, error>>
     \/ /\ pc' = "except" /\ fault' = TRUE /\ error' = "OperationalError"
        /\ UNCHANGED <<conn, work>>
  /\ UNCHANGED <<entry, rng, runs, sqlFile, disk, disk0, inTxn, tblIdx,
                 custVars, products, products0, orderVars>>

\* the SQL file is there: cursor.executescript(sql_script) runs its
\* statements outside any transaction, so they are durable at once
SchemaFromFile ==
  /\ pc = "schema" /\ sqlFile
  /\ \/ /\ disk' = ScriptResult /\ work' = ScriptResult.rows
        /\ pc' = "c_loop"
        /\ UNCHANGED <<fault, error>>
     \/ /\ pc' = "except" /\ fault' = TRUE /\ error' = "OperationalError"
        /\ UNCHANGED <<disk, work>>
  /\ UNCHANGED <<entry, rng, runs, sqlFile, disk0, conn, inTxn, tblIdx,
                 custVars, products, products0, orderVars>>

\* open() raises FileNotFoundError, caught by the inner handler
SchemaFileMissing ==
  /\ pc = "schema" /\ ~sqlFile
  /\ pc' = "manual" /\ tblIdx' = 1
  /\ UNCHANGED <<entry, rng, runs, fault, sqlFile, disk, disk0, conn, work,
                 inTxn, custVars, products, products0, orderVars, error>>

\* create_tables_manually: one cursor.execute(sql) of the loop; the
\* statement is not part of a transaction and is durable at once
CreateTableManually ==
  /\ pc = "manual" /\ tblIdx <= Len(TableNames)
  /\ \/ /\ disk' = CreateIfNotExists(disk, TableNames[tblIdx])
        /\ tblIdx' = tblIdx + 1
        /\ pc' = IF tblIdx = Len(TableNames) THEN "c_loop" ELSE "manual"
        /\ UNCHANGED <<fault, error>>
     \/ /\ pc' = "except" /\ fault' = TRUE /\ error' = "OperationalError"
        /\ UNCHANGED <<disk, tblIdx>>
  /\ UNCHANGED <<entry, rng, runs, sqlFile, disk0, conn, work, inTxn,
                 custVars, products, products0, orderVars>>

\* an exception out of a generator call (MemoryError)
GenerationFault ==
  /\ entry = "create_database"
  /\ pc \in {"c_loop", "o_customer"}
  /\ pc' = "except" /\ fault' = TRUE /\ error' = "MemoryError"
  /\ UNCHANGED <<entry, rng, runs, dbVars, custVars, products, products0,
                 orderVars>>

\* cursor.executemany('INSERT INTO customers ...', customers)
InsertCustomers ==
  /\ pc = "insert_customers"
  /\ ExecuteMany("customers", customers, "insert_products")
  /\ UNCHANGED <<entry, rng, runs, sqlFile, disk, disk0, conn, tblIdx,
                 custVars, products, products0, orderVars>>

\* products = [...]; cursor.executemany('INSERT INTO products ...', products)
\* and, when it succeeds, the call of generate_order_data(customers, products)
InsertProducts ==
  /\ pc = "insert_products"
  /\ products' = Catalog /\ products0' = Catalog
  /\ ExecuteMany("products", Catalog, "o_customer")
  /\ UNCHANGED <<entry, rng, runs, sqlFile, disk, disk0, conn, tblIdx,
                 custVars, orderVars>>

\* cursor.executemany('INSERT INTO orders ...', orders)
InsertOrders ==
  /\ pc = "insert_orders"
  /\ ExecuteMany("orders", orders, "insert_items")
  /\ UNCHANGED <<entry, rng, runs, sqlFile, disk, disk0, conn, tblIdx,
                 custVars, products, products0, orderVars>>

\* cursor.executemany('INSERT INTO order_items ...', order_items)
InsertOrderItems ==
  /\ pc = "insert_items"
  /\ ExecuteMany("order_items", order_items, "commit")
  /\ UNCHANGED <<entry, rng, runs, sqlFile, disk, disk0, conn, tblIdx,
                 custVars, products, products0, orderVars>>

\* conn.commit()
Commit ==
  /\ pc = "commit"
  /\ \/ /\ disk' = Committed(disk, work) /\ inTxn' = FALSE /\ pc' = "close"
        /\ UNCHANGED <<fault, error>>
     \/ /\ pc' = "except" /\ fault' = TRUE /\ error' = "OperationalError"
        /\ UNCHANGED <<disk, inTxn>>
  /\ UNCHANGED <<entry, rng, runs, sqlFile, disk0, conn, work, tblIdx,
                 custVars, products, products0, orderVars>>

\* conn.close() after the commit
Close ==
  /\ pc = "close"
  /\ conn' = "closed"
  /\ pc' = "done"
  /\ UNCHANGED <<entry, rng, runs, fault, sqlFile, disk, disk0, work, inTxn,
                 tblIdx, custVars, products, products0, orderVars, error>>

\* except Exception as e: print, close the connection if there is one; the
\* close discards whatever was not committed.  The function returns None.
Except ==
  /\ pc = "except"
  /\ conn' = CloseIfBound(conn)
  /\ work' = IF conn = "open" THEN disk.rows ELSE work
  /\ inTxn' = IF conn = "open" THEN FALSE ELSE inTxn
  /\ pc' = "done"
  /\ UNCHANGED <<entry, rng, runs, fault, sqlFile, disk, disk0, tblIdx,
                 custVars, products, products0, orderVars, error>>

\* ------------------------------------------------ the reading scripts
\* everything the reading scripts leave alone
readerFrame == <<entry, rng, runs, sqlFile, disk, disk0, work, inTxn,
                 custVars, products, products0, orderVars>>

\* the tables each query reads, in the order the function runs them:
\* plot_monthly_revenue, plot_top_products, plot_revenue_by_category,
\* plot_customer_geography
VisQueryTables ==
  << {"orders", "order_items"}, {"products", "order_items", "orders"},
     {"products", "order_items", "orders"}, {"customers"} >>

\* query1 .. query4 of run_basic_queries
BasicQueryTables ==
  << {"customers"}, {"products"}, {"orders", "customers"},
     {"order_items", "orders"} >>

VisSteps == <<"vis_plot1", "vis_plot2", "vis_plot3", "vis_plot4">>

QuerySteps == <<"rq_query1", "rq_query2", "rq_query3", "rq_query4">>

\* the rows of sqlite_master: the tables of the file, in creation order
TablesFound == SelectSeq(TableNames, LAMBDA t : t \in disk.tables)

\* finally: conn.close()
FinallyClose(c) == "closed"

\* conn = sqlite3.connect(...), the first statement of each reading script,
\* outside any try
ReaderConnect ==
  /\ entry \in ReaderScripts
  /\ pc = "connect"
  /\ \/ /\ conn' = "open"
        /\ pc' = CASE entry = "create_all_visualisations" -> VisSteps[1]
                   [] entry = "run_basic_queries" -> QuerySteps[1]
                   [] entry = "test_connection" -> "tc_tables"
        /\ UNCHANGED <<fault, error>>
     \/ /\ pc' = "raised" /\ fault' = TRUE /\ error' = "OperationalError"
        /\ UNCHANGED conn
  /\ UNCHANGED <<readerFrame, tblIdx>>

\* create_all_visualisations: one plot_* call inside the try; the query
\* raises when a table is missing, the plotting may raise as well
VisPlot ==
  /\ entry = "create_all_visualisations"
  /\ \E k \in 1..Len(VisSteps) :
       /\ pc = VisSteps[k]
       /\ \/ /\ VisQueryTables[k] \subseteq disk.tables
             /\ pc' = IF k < Len(VisSteps) THEN VisSteps[k + 1]
                      ELSE "vis_finally_dict"
             /\ UNCHANGED <<fault, error>>
          \/ /\ ~(VisQueryTables[k] \subseteq disk.tables)
             /\ pc' = "vis_except" /\ error' = "DatabaseError"
             /\ UNCHANGED fault
          \/ /\ pc' = "vis_except" /\ error' = "PlotError" /\ fault' = TRUE
  /\ UNCHANGED <<readerFrame, conn, tblIdx>>

\* except Exception as e: print, return None
VisExcept ==
  /\ pc = "vis_except"
  /\ pc' = "vis_finally_none"
  /\ UNCHANGED <<readerFrame, conn, tblIdx, fault, error>>

\* finally: conn.close(), then the pending return takes place
VisFinally ==
  /\ pc \in {"vis_finally_dict", "vis_finally_none"}
  /\ conn' = FinallyClose(conn)
  /\ pc' = IF pc = "vis_finally_dict" THEN "returned_dict"
           ELSE "returned_none"
  /\ UNCHANGED <<readerFrame, tblIdx, fault, error>>

\* run_basic_queries: one pd.read_sql_query and its prints, not in a try
BasicQuery ==
  /\ entry = "run_basic_queries"
  /\ \E k \in 1..Len(QuerySteps) :
       /\ pc = QuerySteps[k]
       /\ \/ /\ BasicQueryTables[k] \subseteq disk.tables
             /\ pc' = IF k < Len(QuerySteps) THEN QuerySteps[k + 1]
                      ELSE "reader_close"
             /\ UNCHANGED <<fault, error>>
          \/ /\ ~(BasicQueryTables[k] \subseteq disk.tables)
             /\ pc' = "raised" /\ error' = "DatabaseError"
             /\ UNCHANGED fault
          \/ /\ pc' = "raised" /\ error' = "OperationalError"
             /\ fault' = TRUE
  /\ UNCHANGED <<readerFrame, conn, tblIdx>>

\* test_connection: SELECT name FROM sqlite_master, fetchall, print loop
ListTables ==
  /\ entry = "test_connection"
  /\ pc = "tc_tables"
  /\ \/ /\ pc' = "tc_count" /\ tblIdx' = 1
        /\ UNCHANGED <<fault, error>>
     \/ /\ pc' = "raised" /\ error' = "OperationalError" /\ fault' = TRUE
        /\ UNCHANGED tblIdx
  /\ UNCHANGED <<readerFrame, conn>>

\* test_connection: one SELECT COUNT(*) of the second loop, or its end
CountTable ==
  /\ entry = "test_connection"
  /\ pc = "tc_count"
  /\ IF tblIdx <= Len(TablesFound)
     THEN \/ /\ tblIdx' = tblIdx + 1
             /\ UNCHANGED <<pc, fault, error>>
          \/ /\ pc' = "raised" /\ error' = "OperationalError"
             /\ fault' = TRUE
             /\ UNCHANGED tblIdx
     ELSE /\ pc' = "reader_close"
          /\ UNCHANGED <<tblIdx, fault, error>>
  /\ UNCHANGED <<readerFrame, conn>>

\* the conn.close() that ends run_basic_queries and test_connection
ReaderClose ==
  /\ pc = "reader_close"
  /\ conn' = "closed"
  /\ pc' = "returned_none"
  /\ UNCHANGED <<readerFrame, tblIdx, fault, error>>

\* the script is run again, in a new process, on the same database file
NewRun ==
  /\ pc = "done" /\ entry = "create_database" /\ runs < MaxRuns
  /\ runs' = runs + 1
  /\ rng' \in Seeds
  /\ sqlFile' \in BOOLEAN
  /\ disk0' = disk /\ work' = NoRows
  /\ conn' = "none" /\ inTxn' = FALSE /\ tblIdx' = 1
  /\ fault' = FALSE
  /\ products' = <<>> /\ products0' = <<>>
  /\ customers' = <<>> /\ used_emails' = {} /\ i' = 1
  /\ first' = "" /\ last' = "" /\ base_email' = "" /\ email' = ""
  /\ counter' = 1
  /\ orders' = <<>> /\ order_items' = <<>>
  /\ order_id' = 1 /\ order_item_id' = 1
  /\ custIdx' = 0 /\ customer_id' = 0 /\ ordersLeft' = 0 /\ itemsLeft' = 0
  /\ error' = "none"
  /\ pc' = "makedirs"
  /\ UNCHANGED <<entry, disk>>

Next ==
  \/ MakeDirs \/ Connect \/ SchemaFromFile \/ SchemaFileMissing
  \/ CreateTableManually \/ GenerationFault
  \/ CustomerPick \/ CustomerProbe \/ CustomerAppend \/ CustomersReturn
  \/ InsertCustomers \/ InsertProducts
  \/ OrderNextCustomer \/ GenOrder \/ GenItem \/ ItemLoopEnd
  \/ OrderLoopEnd \/ OrdersReturn
  \/ InsertOrders \/ InsertOrderItems \/ Commit \/ Close \/ Except
  \/ NewRun \/ CatalogPriceChange
  \/ ReaderConnect \/ VisPlot \/ VisExcept \/ VisFinally
  \/ BasicQuery \/ ListTables \/ CountTable \/ ReaderClose

Spec == Init /\ [][Next]_vars


\* ================================================================ claims
\* generate_customer_data has returned its list to create_database
CustomersReturned == entry = "create_database" /\ pc = "insert_customers"

\* generate_order_data has returned orders, order_items
OrdersReturned == pc \in {"returned", "insert_orders"}

\* a run of create_database has ended
RunEnded == entry = "create_database" /\ pc = "done"

\* the database file holds the schema and exactly this run's four lists
HoldsThisRun ==
  /\ disk.tables = TableSet
  /\ disk.rows = [t \in TableSet |->
                    CASE t = "customers" -> customers
                      [] t = "products" -> Catalog
                      [] t = "orders" -> orders
                      [] t = "order_items" -> order_items]

\* C1: no two customer records built by generate_customer_data carry the
\* same email address, whatever names were drawn
C1_UniqueEmails ==
  entry = "create_database" =>
    \A a, b \in 1..Len(customers) :
      a # b => customers[a][4] # customers[b][4]

\* the list is returned and two of its customers drew the same name pair
C1_Witness ==
  /\ CustomersReturned
  /\ Len(customers) = NumCustomers
  /\ \E a, b \in 1..Len(customers) :
       /\ a # b
       /\ customers[a][2] = customers[b][2]
       /\ customers[a][3] = customers[b][3]

\* C2: in the output of generate_order_data every order's customer_id is
\* the id of a customer passed in, every item's order_id is the id of a
\* returned order and every item's product_id is the id of a catalog product
C2_ReferentialIntegrity ==
  OrdersReturned =>
    /\ \A k \in 1..Len(orders) :
         \E c \in 1..Len(customers) : customers[c][1] = orders[k][2]
    /\ \A k \in 1..Len(order_items) :
         /\ \E o \in 1..Len(orders) : orders[o][1] = order_items[k][2]
         /\ \E p \in 1..Len(products0) : products0[p][1] = order_items[k][3]

\* a direct call with two customers whose ids are not their positions has
\* returned several orders and items
C2_Witness ==
  /\ pc = "returned"
  /\ Len(customers) = 2 /\ customers[1][1] > customers[2][1]
  /\ Len(orders) >= 2 /\ Len(order_items) >= 2
  /\ \E a, b \in 1..Len(order_items) : order_items[a][3] # order_items[b][3]

\* C3: in the output of generate_order_data the order ids are 1, 2, ...,
\* len(orders) in sequence order and the order-item ids are 1, 2, ...,
\* len(order_items) in sequence order (so both are strictly increasing,
\* unique across all customers and orders, and without gap)
C3_SequentialIds ==
  OrdersReturned =>
    /\ \A k \in 1..Len(orders) : orders[k][1] = k
    /\ \A k \in 1..Len(order_items) : order_items[k][1] = k

\* orders of more than one customer, and an order with more than one item
C3_Witness ==
  /\ OrdersReturned
  /\ \E a, b \in 1..Len(orders) : orders[a][2] # orders[b][2]
  /\ Len(orders) >= 3
  /\ \E a, b \in 1..Len(order_items) :
       a # b /\ order_items[a][2] = order_items[b][2]

OrdersOf(cid) == {k \in 1..Len(orders) : orders[k][2] = cid}

ItemsOf(oid) == {k \in 1..Len(order_items) : order_items[k][2] = oid}

\* C4: in the output of generate_order_data every customer passed in has
\* between 1 and 5 orders and every order has between 1 and 4 items
C4_Cardinality ==
  OrdersReturned =>
    /\ \A c \in 1..Len(customers) :
         /\ Cardinality(OrdersOf(customers[c][1])) >= 1
         /\ Cardinality(OrdersOf(customers[c][1])) <= 5
    /\ \A o \in 1..Len(orders) :
         /\ Cardinality(ItemsOf(orders[o][1])) >= 1
         /\ Cardinality(ItemsOf(orders[o][1])) <= 4

\* both ends of both ranges occur in one output
C4_Witness ==
  /\ OrdersReturned
  /\ \E c \in 1..Len(customers) : Cardinality(OrdersOf(customers[c][1])) = 5
  /\ \E c \in 1..Len(customers) : Cardinality(OrdersOf(customers[c][1])) = 1
  /\ \E o \in 1..Len(orders) : Cardinality(ItemsOf(orders[o][1])) = 4
  /\ \E o \in 1..Len(orders) : Cardinality(ItemsOf(orders[o][1])) = 1

\* C5: every order item's unit_price is the price its product had in the
\* catalog when generate_order_data ran, also after the catalog's price has
\* been changed
C5_PriceCopied ==
  \A k \in 1..Len(order_items) :
    \E p \in 1..Len(products0) :
      /\ products0[p][1] = order_items[k][3]
      /\ products0[p][4] = order_items[k][5]

\* the price of a product was changed after the call and an item bought
\* that product: the item's unit_price is no longer the catalog's price
C5_Witness ==
  /\ pc = "returned"
  /\ \E k \in 1..Len(order_items) :
       \E p \in 1..Len(products) :
         /\ products[p][1] = order_items[k][3]
         /\ products[p][4] # order_items[k][5]

\* C7: a run of create_database ends either with the schema and the four
\* lists committed together or with the database file as it was
C7_AllOrNothing == RunEnded => (disk = disk0 \/ HoldsThisRun)

\* C8: when a run of create_database has ended, no connection is open:
\* the connection is closed if it was opened, and was never opened if
\* the failure came first
C8_ConnectionReleased == RunEnded => conn # "open"

\* a run that failed with its connection open and rows pending has ended
C8_Witness ==
  /\ RunEnded /\ error # "none" /\ conn = "closed"
  /\ customers # <<>>

\* C9: a run of create_database that meets no operating-system or storage
\* fault succeeds and leaves the database file holding exactly the data
\* it generated, whatever the file held before
C9_RecreatedFromScratch ==
  (RunEnded /\ ~fault) => (error = "none" /\ HoldsThisRun)

\* C10: with an empty product catalog generate_order_data fails before it
\* has generated any record
C10_FailFast ==
  (entry = "generate_order_data" /\ products0 = <<>>) =>
    (orders = <<>> /\ order_items = <<>>)


\* C11: generate_customer_data returns exactly the configured count of
\* records (NumCustomers in the model, 100 in the source), and the k-th
\* record of the list has id k, so the ids are 1, 2, ..., count in
\* ascending order with no gap and no repeat
C11_CountAndIds ==
  CustomersReturned =>
    /\ Len(customers) = NumCustomers
    /\ \A k \in 1..Len(customers) : customers[k][1] = k

\* the list has been returned with more than one record
C11_Witness ==
  /\ CustomersReturned
  /\ Len(customers) >= 2
  /\ customers[Len(customers)][1] = Len(customers)

\* how many of the first k customers drew the same name pair as customer k
SamePairUpTo(k) ==
  Cardinality({b \in 1..k : /\ customers[b][2] = customers[k][2]
                            /\ customers[b][3] = customers[k][3]})

\* C12: the first customer generated with a name pair gets
\* first.last@email.com in lower case, the j-th (j >= 2) gets first.last
\* followed by j-1
C12_SuffixByRank ==
  entry = "create_database" =>
    \A k \in 1..Len(customers) :
      customers[k][4] =
        IF SamePairUpTo(k) = 1
        THEN Lower(customers[k][2]) \o "." \o Lower(customers[k][3])
               \o "@email.com"
        ELSE Lower(customers[k][2]) \o "." \o Lower(customers[k][3])
               \o ToString(SamePairUpTo(k) - 1) \o "@email.com"

\* three customers named John Smith got the plain email, suffix 1, suffix 2
C12_Witness ==
  /\ CustomersReturned
  /\ Len(customers) >= 3
  /\ customers[1][4] = "john.smith@email.com"
  /\ customers[2][4] = "john.smith1@email.com"
  /\ customers[3][4] = "john.smith2@email.com"

\* the ISO strings of the days of the signup year
DatesOfSignupYear ==
  UNION {{IsoFormat(<<SignupYear, m, d>>) :
            d \in 1..DaysInMonth(SignupYear, m)} : m \in 1..12}

\* C13: every signup date produced by generate_customer_data is a day of
\* calendar year 2023
C13_SignupIn2023 ==
  entry = "create_database" =>
    \A k \in 1..Len(customers) : customers[k][5] \in DatesOfSignupYear

\* C14: while generate_customer_data looks for a free email, the number of
\* membership tests made for customer i (the counter: one test for the
\* plain email and one per suffix tried) never exceeds i, so the loop
\* ends within count tests for every customer
C14_ProbeBound ==
  (entry = "create_database" /\ pc = "c_probe") =>
    (counter <= i /\ i <= NumCustomers)

\* the last customer needed as many tests as its position
C14_Witness ==
  /\ entry = "create_database" /\ pc = "c_probe"
  /\ i = NumCustomers /\ counter = i
  /\ ~EmailTaken(email, used_emails)


\* a reading script has ended, by return or by exception
ReaderEnded ==
  /\ entry \in ReaderScripts
  /\ pc \in {"returned_dict", "returned_none", "raised"}

\* C15: when create_all_visualisations, run_basic_queries or
\* test_connection has ended, by return or by exception, the connection
\* it opened is closed, and create_all_visualisations has returned None
\* if a step raised
C15_ReadersClose ==
  ReaderEnded =>
    /\ conn # "open"
    /\ (entry = "create_all_visualisations" /\ conn # "none" /\ error # "none")
         => pc = "returned_none"


\* rows are written to table t through the open connection in this step
Writes(t) ==
  /\ conn = "open" /\ conn' = "open"
  /\ Len(work'[t]) > Len(work[t])

\* C16: in a run of create_database the customers rows are written only
\* once the schema is set up, the products rows only after the customers
\* rows, the orders rows only after the customers and products rows, the
\* order-items rows only after the orders rows; the database file changes
\* only at the one commit, which comes after all four inserts; and the
\* connection of a run without error is closed only after that commit
C16_StepOrder ==
  [][entry = "create_database" =>
       /\ Writes("customers") =>
            pc = "insert_customers" /\ disk.tables = TableSet
       /\ Writes("products") =>
            pc = "insert_products" /\ work["customers"] = customers
       /\ Writes("orders") =>
            /\ pc = "insert_orders"
            /\ work["customers"] = customers /\ work["products"] = Catalog
       /\ Writes("order_items") =>
            /\ pc = "insert_items"
            /\ work["orders"] = orders /\ work["products"] = Catalog
       /\ disk' # disk =>
            /\ pc = "commit"
            /\ work = [t \in TableSet |->
                         CASE t = "customers" -> customers
                           [] t = "products" -> Catalog
                           [] t = "orders" -> orders
                           [] t = "order_items" -> order_items]
       /\ (conn = "open" /\ conn' = "closed" /\ error = "none") =>
            pc = "close" /\ disk.rows = work]_vars

====
